---- MODULE Spec2Model ----
(***************************************************************************)
(* Model of src/pipeline.py: the crypto price pipeline.                    *)
(*                                                                         *)
(*   Spec      the command-line program: repeated runs of main() in one of *)
(*             the modes fetch / analyze / all, one step at a time, over   *)
(*             the SQLite store and the two report files.                  *)
(*   SpecNorm  normalize_rows() one loop iteration at a time while the     *)
(*             wall clock advances.                                        *)
(*                                                                         *)
(* Encoding of Python values.  A key that a raw record does not carry is   *)
(* Absent; a key that is present with null is None.  Numbers are integers; *)
(* strings that the code transforms (symbol) are sequences of characters,  *)
(* the timestamp is the sequence of the digits strftime prints.            *)
(***************************************************************************)
EXTENDS Integers, Sequences, FiniteSets, TLC

VARIABLES schema, prices, snap_path, movers_path,
          mode, pc, steps, payload, df, clock, now, i, runs, err

vars == <<schema, prices, snap_path, movers_path,
          mode, pc, steps, payload, df, clock, now, i, runs, err>>

storeVars == <<schema, prices, snap_path, movers_path>>

----------------------------------------------------------------------------
(* Bounds of the model *)

MaxPayload == 2      \* records in one API response
MaxRuns    == 2      \* invocations of the program in one behaviour
MaxTicks   == 1      \* seconds the wall clock can advance
ClockStart == 59     \* first clock reading, in seconds; the last second of a minute

----------------------------------------------------------------------------
(* Python values *)

None      == -1000                \* None in a numeric field
Absent    == -1001                \* numeric key missing from the record
NoneStr   == "<None>"             \* None in the id field
AbsentStr == "<absent>"           \* id key missing
NoneSym   == <<"<None>">>         \* None in the symbol field
AbsentSym == <<"<absent>">>       \* symbol key missing
NoTs      == <<>>                 \* no timestamp: NULL / not yet captured
NoFile    == [exists |-> FALSE, rows |-> <<>>]   \* the report file does not exist

SOURCE == "coingecko"

\* dict.get(key) for a numeric, an id and a symbol field: None when missing.
GetNum(v) == IF v = Absent THEN None ELSE v
GetStr(v) == IF v = AbsentStr THEN NoneStr ELSE v
GetSym(v) == IF v = AbsentSym THEN NoneSym ELSE v

\* str.upper(), character by character.
LowerChars == <<"b", "t", "c", "e", "h">>
UpperChars == <<"B", "T", "C", "E", "H">>

UpperChar(c) ==
    IF \E k \in 1..Len(LowerChars) : LowerChars[k] = c
    THEN UpperChars[CHOOSE k \in 1..Len(LowerChars) : LowerChars[k] = c]
    ELSE c

StrUpper(s) == [k \in 1..Len(s) |-> UpperChar(s[k])]

\* datetime.now(timezone.utc).strftime("%Y-%m-%d %H:%M:%S%z") of a clock
\* reading in seconds: the minute and second fields, two digits each (the
\* fields above the minute do not change within the modelled span).
SecondsPerMinute == 60

Strftime(c) ==
    LET m == (c \div SecondsPerMinute) % 60
        s == c % SecondsPerMinute
    IN  <<m \div 10, m % 10, s \div 10, s % 10>>

\* Comparison of two TEXT values of equal length, as SQLite's BINARY collation.
RECURSIVE TextLess(_, _)
TextLess(a, b) ==
    IF a = <<>> \/ b = <<>> THEN a = <<>> /\ b # <<>>
    ELSE IF Head(a) # Head(b) THEN Head(a) < Head(b)
    ELSE TextLess(Tail(a), Tail(b))

----------------------------------------------------------------------------
(* normalize_rows *)

\* One raw record that is a mapping.
RawRecord(id, sym, price, cap, vol, chg) ==
    [shape |-> "mapping", id |-> id, symbol |-> sym, current_price |-> price,
     market_cap |-> cap, total_volume |-> vol, price_change_percentage_24h |-> chg]

\* A record that is not a mapping (a string, a number): it has no .get.
BadRecord ==
    [shape |-> "other", id |-> AbsentStr, symbol |-> AbsentSym, current_price |-> Absent,
     market_cap |-> Absent, total_volume |-> Absent, price_change_percentage_24h |-> Absent]

IsMapping(item) == item.shape = "mapping"

\* (item.get("symbol") or "").upper()
SymbolOf(item) ==
    LET s == GetSym(item.symbol)
    IN  StrUpper(IF s = NoneSym \/ s = <<>> THEN <<>> ELSE s)

\* item.get("price_change_percentage_24h", 0.0): the default only for a missing key.
ChangeOfGetDefault(item) ==
    IF item.price_change_percentage_24h = Absent THEN 0 ELSE item.price_change_percentage_24h

\* (item.get("price_change_percentage_24h") or 0.0)
ChangeOf(item) ==
    LET v == GetNum(item.price_change_percentage_24h)
    IN  IF v = None \/ v = 0 THEN 0 ELSE v

\* The dict appended for one record, stamped with the timestamp ts.
NormalizeItem(item, ts) ==
    [ts_utc         |-> ts,
     coin_id        |-> GetStr(item.id),
     symbol         |-> SymbolOf(item),
     price_usd      |-> GetNum(item.current_price),
     market_cap_usd |-> GetNum(item.market_cap),
     volume_24h_usd |-> GetNum(item.total_volume),
     change_24h_pct |-> ChangeOf(item),
     source         |-> SOURCE]

\* The whole of normalize_rows for a payload of mappings.
normalize_rows(p, ts) == [k \in 1..Len(p) |-> NormalizeItem(p[k], ts)]

AllMappings(p) == \A k \in 1..Len(p) : IsMapping(p[k])

----------------------------------------------------------------------------
(* The store: table prices of crypto_prices.db *)

\* schema = "none"   the table does not exist
\*          "pk"     created by CREATE_SQL: NOT NULL columns, PRIMARY KEY (ts_utc, coin_id)
\*          "plain"  created by DataFrame.to_sql itself: columns only, no constraint
KeyOf(r) == <<r.ts_utc, r.coin_id>>

\* CREATE_SQL's NOT NULL columns.
NotNullOk(r) ==
    /\ r.ts_utc # NoTs
    /\ r.coin_id # NoneStr
    /\ r.symbol # NoneSym
    /\ r.source # NoneStr

\* Violates with the PRIMARY KEY clause left out of CREATE_SQL.
ViolatesNoKey(sch, table, r) == sch = "pk" /\ ~NotNullOk(r)

\* Does inserting r into table break a constraint of the schema?
Violates(sch, table, r) ==
    /\ sch = "pk"
    /\ \/ ~NotNullOk(r)
       \/ \E k \in 1..Len(table) : KeyOf(table[k]) = KeyOf(r)

\* init_db: CREATE TABLE IF NOT EXISTS (the index does not change contents).
init_db(sch) == IF sch = "none" THEN "pk" ELSE sch

\* The INSERTs of to_sql, row by row in one transaction; stops at the first
\* row that breaks a constraint.
RECURSIVE ExecuteMany(_, _, _)
ExecuteMany(sch, table, rows) ==
    IF rows = <<>> THEN [ok |-> TRUE, table |-> table]
    ELSE IF Violates(sch, table, Head(rows)) THEN [ok |-> FALSE, table |-> table]
    ELSE ExecuteMany(sch, Append(table, Head(rows)), Tail(rows))

\* load_into_sqlite committing the rows inserted before the failing one.
LoadNoRollback(sch, table, d) ==
    LET res == ExecuteMany(sch, table, d)
    IN  [err |-> IF res.ok THEN "" ELSE "IntegrityError", schema |-> sch, prices |-> res.table]

\* load_into_sqlite with if_exists="replace": the table is dropped first.
LoadReplace(sch, table, d) ==
    IF d = <<>> THEN [err |-> "", schema |-> sch, prices |-> table]
    ELSE [err |-> "", schema |-> "plain", prices |-> d]

\* load_into_sqlite raising on an empty frame instead of returning.
LoadRaiseOnEmpty(sch, table, d) ==
    IF d = <<>> THEN [err |-> "ValueError", schema |-> sch, prices |-> table]
    ELSE LET res == ExecuteMany(sch, table, d)
         IN  IF res.ok
             THEN [err |-> "", schema |-> sch, prices |-> res.table]
             ELSE [err |-> "IntegrityError", schema |-> sch, prices |-> table]

\* load_into_sqlite(d) on a store (sch, table): the error raised ("" for a
\* normal return) and the store it leaves behind.  A failed transaction is
\* rolled back by the connection's context manager.
load_into_sqlite(sch, table, d) ==
    IF d = <<>> THEN [err |-> "", schema |-> sch, prices |-> table]
    ELSE LET sch2 == IF sch = "none" THEN "plain" ELSE sch
             res  == ExecuteMany(sch2, table, d)
         IN  IF res.ok
             THEN [err |-> "", schema |-> sch2, prices |-> res.table]
             ELSE [err |-> "IntegrityError", schema |-> sch, prices |-> table]

----------------------------------------------------------------------------
(* export_snapshots *)

\* SELECT MAX(ts_utc) FROM prices: NULL on an empty table.
RECURSIVE MaxTsOf(_)
MaxTsOf(table) ==
    IF table = <<>> THEN NoTs
    ELSE LET rest == MaxTsOf(Tail(table))
             t    == Head(table).ts_utc
         IN  IF rest = NoTs \/ TextLess(rest, t) THEN t ELSE rest

\* The seven columns of the SELECT list, in its order; source is not selected.
ReportRow(r) ==
    [coin_id |-> r.coin_id, symbol |-> r.symbol, ts_utc |-> r.ts_utc,
     price_usd |-> r.price_usd, market_cap_usd |-> r.market_cap_usd,
     volume_24h_usd |-> r.volume_24h_usd, change_24h_pct |-> r.change_24h_pct]

\* The SELECT without its WHERE clause.
WhereTsAll(table, ts) == [k \in 1..Len(table) |-> ReportRow(table[k])]

\* WHERE ts_utc = ?  (a NULL parameter matches no row)
WhereTs(table, ts) ==
    LET Match(r) == ts # NoTs /\ r.ts_utc = ts
        hit == SelectSeq(table, Match)
    IN  [k \in 1..Len(hit) |-> ReportRow(hit[k])]

\* SqlGreater with NULL as the largest value (NULLS FIRST in a descending sort).
SqlGreaterNullsFirst(a, b) == b # None /\ (a = None \/ a > b)

\* a sorts strictly before b in descending order; NULL is the smallest value.
SqlGreater(a, b) == a # None /\ (b = None \/ a > b)

\* Insert r into a descending sequence, after every row that does not sort after it.
RECURSIVE InsertDesc(_, _, _)
InsertDesc(sorted, r, col) ==
    IF sorted = <<>> THEN <<r>>
    ELSE IF SqlGreater(r[col], Head(sorted)[col]) THEN <<r>> \o sorted
    ELSE <<Head(sorted)>> \o InsertDesc(Tail(sorted), r, col)

RECURSIVE SortDesc(_, _)
SortDesc(rows, col) ==
    IF rows = <<>> THEN <<>>
    ELSE InsertDesc(SortDesc(SubSeq(rows, 1, Len(rows) - 1), col), rows[Len(rows)], col)

Perms(n) == {f \in [1..n -> 1..n] : \A a, b \in 1..n : f[a] = f[b] => a = b}
Permute(rows, f) == [k \in 1..Len(rows) |-> rows[f[k]]]

\* ORDER BY col DESC: rows with equal values come out in an order SQL leaves open.
OrderByDesc(rows, col) == {SortDesc(Permute(rows, f), col) : f \in Perms(Len(rows))}

\* DataFrame.sort_values(col, ascending=False): missing values are set aside and
\* appended last (na_position="last"), the rest are sorted; the default sort is
\* not stable.
SortValuesDesc(rows, col) ==
    LET Has(r) == r[col] # None
        Nan(r) == r[col] = None
        present == SelectSeq(rows, Has)
        missing == SelectSeq(rows, Nan)
    IN  {SortDesc(Permute(present, f), col) \o missing : f \in Perms(Len(present))}

\* DataFrame.to_csv(path, index=False): the file holds the header and the rows.
CsvFile(rows) == [exists |-> TRUE, rows |-> rows]

\* The pairs (snap, movers) one call of export_snapshots can produce.
export_snapshots(table) ==
    LET latest_ts == MaxTsOf(table)
        selected  == WhereTs(table, latest_ts)
    IN  UNION {{[snap |-> s, movers |-> m] : m \in SortValuesDesc(s, "change_24h_pct")} :
                s \in OrderByDesc(selected, "market_cap_usd")}

----------------------------------------------------------------------------
(* Inputs *)

MaxClock == ClockStart + MaxTicks

BoundedSeq(S, n) == UNION {[1..k -> S] : k \in 0..n}

\* What the API can answer in the runs of Spec: records for two of COINS, with
\* market cap and 24h change present, null or missing, one record without an
\* id, and one element that is not a mapping.
Btc(cap, chg) == RawRecord("bitcoin", <<"b", "t", "c">>, 5, cap, 7, chg)
Eth(cap, chg) == RawRecord("ethereum", <<"e", "t", "h">>, 3, cap, None, chg)

ApiRecords ==
    {Btc(10, -3), Btc(None, Absent),
     Eth(10, 4), Eth(9, -3),
     RawRecord(AbsentStr, <<"b", "t", "c">>, 5, 9, 7, 4),
     BadRecord}

ApiPayloads == BoundedSeq(ApiRecords, MaxPayload)

\* The records normalize_rows is exercised on in SpecNorm: every field is seen
\* missing, null and with a value; the symbol in lower, mixed and upper case
\* and empty; the 24h change missing, null, zero, negative and positive.
NormIdSym ==
    {<<"bitcoin", <<"b", "t", "c">>, 5, None, Absent>>,
     <<AbsentStr, AbsentSym, None, Absent, 7>>,
     <<"ethereum", NoneSym, Absent, 9, None>>,
     <<"ethereum", <<"E", "t", "h">>, 5, 9, 7>>,
     <<NoneStr, <<>>, None, None, None>>}

NormChanges == {Absent, None, 0, -3, 4}

NormRecords ==
    {RawRecord(x[1], x[2], x[3], x[4], x[5], c) : x \in NormIdSym, c \in NormChanges}
        \cup {BadRecord}

NormPayloads == BoundedSeq(NormRecords, MaxPayload)

----------------------------------------------------------------------------
(* Spec: the program, one run of main() after another *)

\* pc = "idle"                 no process is running and none has run yet
\*      "init_db" .. "export"  the call main() is about to make
\*      "done"                 the last run returned, exit code 0
\*      "failed"               the last run died of the uncaught exception err
\* steps lists the calls this run has made and whether each returned.

Modes == {"fetch", "analyze", "all"}

Step(name, ok) == [step |-> name, ok |-> ok]

Init ==
    /\ schema = "none"
    /\ prices = <<>>
    /\ snap_path = NoFile
    /\ movers_path = NoFile
    /\ mode = "none"
    /\ pc = "idle"
    /\ steps = <<>>
    /\ payload = <<>>
    /\ df = <<>>
    /\ clock = ClockStart
    /\ now = NoTs
    /\ i = 0
    /\ runs = 0
    /\ err = ""

\* main(): the operator starts the program with a command.
main(m) ==
    /\ pc \in {"idle", "done", "failed"}
    /\ runs < MaxRuns
    /\ runs' = runs + 1
    /\ mode' = m
    /\ pc' = IF m \in {"fetch", "all"} THEN "init_db" ELSE "export"
    /\ steps' = <<>>
    /\ payload' = <<>>
    /\ df' = <<>>
    /\ err' = ""
    /\ UNCHANGED <<storeVars, clock, now, i>>

\* run_fetch: init_db()
InitDb ==
    /\ pc = "init_db"
    /\ schema' = init_db(schema)
    /\ steps' = Append(steps, Step("ensure_schema", TRUE))
    /\ pc' = "fetch"
    /\ UNCHANGED <<prices, snap_path, movers_path, mode, payload, df, clock, now, i, runs, err>>

\* run_fetch: fetch_current_prices() returns the decoded response.
FetchReturns(p) ==
    /\ pc = "fetch"
    /\ payload' = p
    /\ steps' = Append(steps, Step("fetch", TRUE))
    /\ pc' = "normalize"
    /\ UNCHANGED <<storeVars, mode, df, clock, now, i, runs, err>>

\* FetchRaises with main() catching the failure of run_fetch and going on.
FetchRaisesCaught ==
    /\ pc = "fetch"
    /\ steps' = Append(steps, Step("fetch", FALSE))
    /\ pc' = IF mode = "all" THEN "export" ELSE "failed"
    /\ err' = "FetchError"
    /\ UNCHANGED <<storeVars, mode, payload, df, clock, now, i, runs>>

\* run_fetch: requests.get times out or raise_for_status raises; nothing
\* in run_fetch or main catches it.
FetchRaises ==
    /\ pc = "fetch"
    /\ steps' = Append(steps, Step("fetch", FALSE))
    /\ pc' = "failed"
    /\ err' = "FetchError"
    /\ UNCHANGED <<storeVars, mode, payload, df, clock, now, i, runs>>

\* run_fetch: normalize_rows(payload).  The clock is read once, at a reading
\* not before the last one; an element without .get raises AttributeError.
Normalize ==
    /\ pc = "normalize"
    /\ clock' \in clock..MaxClock
    /\ IF AllMappings(payload)
       THEN /\ df' = normalize_rows(payload, Strftime(clock'))
            /\ payload' = payload
            /\ steps' = Append(steps, Step("normalize", TRUE))
            /\ pc' = "load"
            /\ err' = err
       ELSE /\ df' = df
            /\ payload' = <<>>
            /\ steps' = Append(steps, Step("normalize", FALSE))
            /\ pc' = "failed"
            /\ err' = "AttributeError"
    /\ UNCHANGED <<storeVars, mode, now, i, runs>>

\* run_fetch: load_into_sqlite(df), then back in main; the locals of run_fetch
\* are gone when it returns or raises.
Load ==
    /\ pc = "load"
    /\ LET res == load_into_sqlite(schema, prices, df)
       IN  /\ schema' = res.schema
           /\ prices' = res.prices
           /\ err' = res.err
           /\ steps' = Append(steps, Step("load", res.err = ""))
           /\ pc' = IF res.err # "" THEN "failed"
                    ELSE IF mode = "all" THEN "export" ELSE "done"
    /\ payload' = <<>>
    /\ df' = <<>>
    /\ UNCHANGED <<snap_path, movers_path, mode, clock, now, i, runs>>

\* run_analyze: export_snapshots().  Without the table the first query raises
\* and no file is written.
Export ==
    /\ pc = "export"
    /\ IF schema = "none"
       THEN /\ steps' = Append(steps, Step("export", FALSE))
            /\ pc' = "failed"
            /\ err' = "DatabaseError"
            /\ UNCHANGED <<snap_path, movers_path>>
       ELSE /\ \E out \in export_snapshots(prices) :
                  /\ snap_path' = CsvFile(out.snap)
                  /\ movers_path' = CsvFile(out.movers)
            /\ steps' = Append(steps, Step("export", TRUE))
            /\ pc' = "done"
            /\ err' = err
    /\ UNCHANGED <<schema, prices, mode, payload, df, clock, now, i, runs>>

Next ==
    \/ \E m \in Modes : main(m)
    \/ InitDb
    \/ \E p \in ApiPayloads : FetchReturns(p)
    \/ FetchRaises
    \/ Normalize
    \/ Load
    \/ Export

Spec == Init /\ [][Next]_vars

----------------------------------------------------------------------------
(* SpecNorm: one call of normalize_rows, statement by statement *)

InitNorm ==
    /\ schema = "none"
    /\ prices = <<>>
    /\ snap_path = NoFile
    /\ movers_path = NoFile
    /\ mode = "none"
    /\ pc = "n_call"
    /\ steps = <<>>
    /\ payload \in NormPayloads
    /\ df = <<>>
    /\ clock = ClockStart
    /\ now = NoTs
    /\ i = 0
    /\ runs = 0
    /\ err = ""

\* The wall clock moves on by a second, at any moment.
Tick ==
    /\ pc \in {"n_call", "n_loop"}
    /\ clock < MaxClock
    /\ clock' = clock + 1
    /\ UNCHANGED <<storeVars, mode, pc, steps, payload, df, now, i, runs, err>>

\* now = datetime.now(timezone.utc).strftime(...); rows = []
NormNow ==
    /\ pc = "n_call"
    /\ now' = Strftime(clock)
    /\ df' = <<>>
    /\ i' = 1
    /\ pc' = "n_loop"
    /\ UNCHANGED <<storeVars, mode, steps, payload, clock, runs, err>>

\* NormAppend reading the clock again for every row.
NormAppendClock ==
    /\ pc = "n_loop"
    /\ i <= Len(payload)
    /\ IsMapping(payload[i])
    /\ df' = Append(df, NormalizeItem(payload[i], Strftime(clock)))
    /\ i' = i + 1
    /\ UNCHANGED <<storeVars, mode, pc, steps, payload, clock, now, runs, err>>

\* One iteration of the loop: rows.append({...}) for a mapping.
NormAppend ==
    /\ pc = "n_loop"
    /\ i <= Len(payload)
    /\ IsMapping(payload[i])
    /\ df' = Append(df, NormalizeItem(payload[i], now))
    /\ i' = i + 1
    /\ UNCHANGED <<storeVars, mode, pc, steps, payload, clock, now, runs, err>>

\* One iteration of the loop on an element that has no .get.
NormRaises ==
    /\ pc = "n_loop"
    /\ i <= Len(payload)
    /\ ~IsMapping(payload[i])
    /\ pc' = "n_failed"
    /\ err' = "AttributeError"
    /\ UNCHANGED <<storeVars, mode, steps, payload, df, clock, now, i, runs>>

\* return pd.DataFrame(rows)
NormReturn ==
    /\ pc = "n_loop"
    /\ i > Len(payload)
    /\ pc' = "n_done"
    /\ UNCHANGED <<storeVars, mode, steps, payload, df, clock, now, i, runs, err>>

NextNorm ==
    \/ Tick
    \/ NormNow
    \/ NormAppend
    \/ NormRaises
    \/ NormReturn

SpecNorm == InitNorm /\ [][NextNorm]_vars

----------------------------------------------------------------------------
(* Properties *)

IsPrefix(a, b) == Len(a) <= Len(b) /\ SubSeq(b, 1, Len(a)) = a

IsPermutationOf(a, b) ==
    /\ Len(a) = Len(b)
    /\ \E f \in Perms(Len(b)) : a = Permute(b, f)

LastStep == steps[Len(steps)]

\* No run of main() reaches load_into_sqlite before init_db, so the table
\* always carries CREATE_SQL's constraints.
TableByInitDb == schema \in {"none", "pk"}

HasDuplicate(d, table) ==
    /\ d # <<>>
    /\ \E a \in 1..Len(d) :
          \/ \E k \in 1..Len(table) : KeyOf(table[k]) = KeyOf(d[a])
          \/ \E b \in 1..Len(d) : b # a /\ KeyOf(d[b]) = KeyOf(d[a])

\* C2: a load of a batch with a duplicate key fails with the uniqueness error
\* (sqlite3.IntegrityError) and leaves the store exactly as it was.
C2_DuplicateRejected ==
    [][(pc = "load" /\ HasDuplicate(df, prices))
          => (prices' = prices /\ schema' = schema
              /\ err' = "IntegrityError" /\ pc' = "failed")]_vars

\* A load has just been refused on a store that already held an observation.
C2_Witness ==
    /\ pc = "failed" /\ err = "IntegrityError"
    /\ Len(prices) = 1 /\ LastStep.step = "load"

\* The stored observations of the greatest captured_at, as report rows.
LatestObservations ==
    LET IsLatest(r) == \A k \in 1..Len(prices) : ~TextLess(r.ts_utc, prices[k].ts_utc)
        latest == SelectSeq(prices, IsLatest)
    IN  [k \in 1..Len(latest) |-> ReportRow(latest[k])]

ExportJustDone == pc = "done" /\ steps # <<>> /\ LastStep.step = "export"

\* C3: after an export on a non-empty store both reports hold exactly the
\* observations of the greatest captured_at, each once, and so the same rows.
C3_LatestOnly ==
    (ExportJustDone /\ prices # <<>>)
        => /\ snap_path.exists /\ movers_path.exists
           /\ IsPermutationOf(snap_path.rows, LatestObservations)
           /\ IsPermutationOf(movers_path.rows, LatestObservations)
           /\ IsPermutationOf(movers_path.rows, snap_path.rows)

\* An export has run on a store with observations of two timestamps T1 < T2.
C3_Witness ==
    /\ ExportJustDone
    /\ \E a, b \in 1..Len(prices) : TextLess(prices[a].ts_utc, prices[b].ts_utc)
    /\ Len(snap_path.rows) >= 1
    /\ Len(snap_path.rows) < Len(prices)

ModeSequence(m) ==
    CASE m = "fetch"   -> <<"ensure_schema", "fetch", "normalize", "load">>
      [] m = "analyze" -> <<"export">>
      [] m = "all"     -> <<"ensure_schema", "fetch", "normalize", "load", "export">>
      [] OTHER         -> <<>>

StepNames == [k \in 1..Len(steps) |-> steps[k].step]

StepOfPc ==
    CASE pc = "init_db"   -> "ensure_schema"
      [] pc = "fetch"     -> "fetch"
      [] pc = "normalize" -> "normalize"
      [] pc = "load"      -> "load"
      [] pc = "export"    -> "export"
      [] OTHER            -> "none"

\* The steps made so far are a prefix of the mode's sequence, all but a failed
\* last one returned, and the step about to start is the next of the sequence.
RunInOrder ==
    /\ IsPrefix(StepNames, ModeSequence(mode))
    /\ \A k \in 1..Len(steps) : steps[k].ok \/ (k = Len(steps) /\ pc = "failed")
    /\ pc = "failed" => steps # <<>> /\ ~LastStep.ok
    /\ pc = "done" => StepNames = ModeSequence(mode)
    /\ StepOfPc # "none"
          => /\ Len(steps) < Len(ModeSequence(mode))
             /\ ModeSequence(mode)[Len(steps) + 1] = StepOfPc

\* After a failure the run makes no further step, and up to and including a
\* failing fetch the run changes no observation and no report file.
RunStopsOnFailure ==
    /\ pc = "failed" => (runs' = runs + 1 /\ steps' = <<>>)
    /\ pc \in {"init_db", "fetch"} => UNCHANGED <<prices, snap_path, movers_path>>
    /\ pc' = "export" => (pc = "load" \/ (pc \in {"idle", "done", "failed"} /\ runs' = runs + 1))

\* C4: the steps of a run are a prefix of its mode's sequence, each started
\* only after the ones before it returned; nothing runs after a failure; a
\* fetch failure leaves store and reports as they were.
C4_Sequencing == []RunInOrder /\ [][RunStopsOnFailure]_vars

\* A run in mode all died in fetch over a store that held observations.
C4_Witness ==
    /\ mode = "all" /\ pc = "failed" /\ err = "FetchError"
    /\ prices # <<>>
    /\ StepNames = <<"ensure_schema", "fetch">>

\* C5: export on a store without observations writes neither report file.
\* The store never loses a row, so a report file next to an empty store was
\* written by such an export.
C5_NoReportFromEmptyStore ==
    prices = <<>> => (~snap_path.exists /\ ~movers_path.exists)

NonIncreasingNullsLast(rows, col) ==
    \A a, b \in 1..Len(rows) :
        a < b => /\ rows[a][col] = None => rows[b][col] = None
                 /\ (rows[a][col] # None /\ rows[b][col] # None) => rows[a][col] >= rows[b][col]

\* C6: the snapshot report is non-increasing in market_cap_usd and the movers
\* report in change_24h_pct, null values after all others.
C6_ReportsSorted ==
    /\ snap_path.exists => NonIncreasingNullsLast(snap_path.rows, "market_cap_usd")
    /\ movers_path.exists => NonIncreasingNullsLast(movers_path.rows, "change_24h_pct")

\* Reports of two rows, the snapshot ending in a null market cap, the movers in
\* the other order.
C6_Witness ==
    /\ snap_path.exists /\ movers_path.exists
    /\ Len(snap_path.rows) = 2
    /\ snap_path.rows[1].market_cap_usd # None
    /\ snap_path.rows[2].market_cap_usd = None
    /\ movers_path.rows = <<snap_path.rows[2], snap_path.rows[1]>>
    /\ movers_path.rows[1].change_24h_pct > movers_path.rows[2].change_24h_pct

\* C7: every stored observation stays, unchanged and in place; the store
\* changes only in a load of a non-empty batch that returns, by those rows.
C7_AppendOnly ==
    [][/\ IsPrefix(prices, prices')
       /\ prices' # prices
            => /\ pc = "load" /\ df # <<>>
               /\ err' = "" /\ pc' # "failed"
               /\ prices' = prices \o df]_vars

\* A second run has loaded and exported over the observations of a first.
C7_Witness ==
    /\ pc = "done" /\ mode = "all" /\ runs >= 2
    /\ \E a, b \in 1..Len(prices) : prices[a].ts_utc # prices[b].ts_utc
    /\ snap_path.exists

\* C10: a load of an empty batch returns without error, leaves the store as it
\* was, and the run goes on to its next step.
C10_EmptyLoadNoOp ==
    [][(pc = "load" /\ df = <<>>)
          => /\ prices' = prices /\ schema' = schema
             /\ err' = "" /\ LastStep'.ok
             /\ pc' = IF mode = "all" THEN "export" ELSE "done"]_vars

\* A run in mode all is past its load, which returned, with nothing stored:
\* the batch was empty.
C10_Witness ==
    /\ mode = "all" /\ pc = "export"
    /\ steps # <<>> /\ LastStep.step = "load" /\ LastStep.ok
    /\ prices = <<>>

----------------------------------------------------------------------------
(* Properties of normalize_rows, under SpecNorm *)

\* t is s in upper case.
UpperPairs ==
    {<<"b", "B">>, <<"t", "T">>, <<"c", "C">>, <<"e", "E">>, <<"h", "H">>,
     <<"B", "B">>, <<"T", "T">>, <<"C", "C">>, <<"E", "E">>, <<"H", "H">>}

IsUpperOf(t, s) ==
    /\ Len(t) = Len(s)
    /\ \A k \in 1..Len(s) : <<s[k], t[k]>> \in UpperPairs

NullIfMissing(v) == IF v \in {Absent, None} THEN None ELSE v

\* What the claim says of every field but change_24h_pct.
RowMatches(item, row) ==
    /\ row.coin_id = (IF item.id = AbsentStr THEN NoneStr ELSE item.id)
    /\ IF item.symbol \in {AbsentSym, NoneSym}
       THEN row.symbol = <<>>
       ELSE IsUpperOf(row.symbol, item.symbol)
    /\ row.price_usd = NullIfMissing(item.current_price)
    /\ row.market_cap_usd = NullIfMissing(item.market_cap)
    /\ row.volume_24h_usd = NullIfMissing(item.total_volume)
    /\ row.source = "coingecko"

\* C8 as stated: one row per record, in order; change_24h_pct is 0.0 when the
\* key is absent and the record's value otherwise.
C8_AsStated ==
    pc = "n_done"
        => /\ Len(df) = Len(payload)
           /\ \A k \in 1..Len(payload) :
                 /\ RowMatches(payload[k], df[k])
                 /\ df[k].change_24h_pct =
                        (IF payload[k].price_change_percentage_24h = Absent
                         THEN 0
                         ELSE payload[k].price_change_percentage_24h)

\* C8, amended: change_24h_pct is 0.0 when the key is absent or null and the
\* record's value otherwise.
C8_Normalize ==
    pc = "n_done"
        => /\ Len(df) = Len(payload)
           /\ \A k \in 1..Len(payload) :
                 /\ RowMatches(payload[k], df[k])
                 /\ df[k].change_24h_pct =
                        (IF payload[k].price_change_percentage_24h \in {Absent, None}
                         THEN 0
                         ELSE payload[k].price_change_percentage_24h)

\* Two records normalized: a null 24h change with a lower-case symbol, then a
\* missing 24h change with a mixed-case symbol.
C8_Witness ==
    /\ pc = "n_done" /\ Len(df) = 2
    /\ payload[1].price_change_percentage_24h = None
    /\ payload[1].symbol = <<"b", "t", "c">>
    /\ payload[2].price_change_percentage_24h = Absent
    /\ payload[2].symbol = <<"E", "t", "h">>

\* C9: all rows of one normalize_rows call carry the same captured_at, the
\* one read at its start, however the clock moves meanwhile.
C9_OneTimestamp ==
    \A k \in 1..Len(df) : df[k].ts_utc = df[1].ts_utc /\ df[k].ts_utc = now

\* Two rows were produced and the clock has moved on since the first statement.
C9_Witness ==
    /\ pc = "n_done" /\ Len(df) >= 2
    /\ Strftime(clock) # now

====
